---------------------------- MODULE Spec2Model ----------------------------
(***************************************************************************)
(* The in-memory question/answer store of the questionnaire web service:   *)
(* two hash maps, each behind its own tokio RwLock, and the request        *)
(* handlers get_questions, add_question, update_question, delete_question  *)
(* and add_answer that run as concurrent tasks over them, together with    *)
(* the pagination helper extract_pagination.                               *)
(***************************************************************************)
EXTENDS Integers, Sequences, FiniteSets, TLC

(***************************************************************************)
(* Bounds of the model.                                                    *)
(***************************************************************************)
\* Number of request tasks that may be in flight at the same time.
NumTasks == 2
\* Question ids are the tokens 1..MaxId (distinct non-empty strings).
MaxId == 2
\* Request bodies carry one of MaxVer distinguishable payloads.
MaxVer == 2
\* The end index the listing requests of the concurrent model ask for; their
\* start index is any of 1..MaxReq.
MaxReq == 2

Tasks == 1..NumTasks
QIds == 1..MaxId
Versions == 1..MaxVer
Colls == {"questions", "answers"}

\* The value of a field of a map slot that has not been written yet, and of a
\* task's local that holds nothing.
Uninit == 0

(***************************************************************************)
(* Records.  A request body Q(i, v) carries the payload v in each of its   *)
(* fields, so that a record assembled from two different bodies shows.     *)
(***************************************************************************)
Q(i, v) == [id |-> i, title |-> v, content |-> v, tags |-> v]

Bodies == {Q(i, v) : i \in QIds, v \in Versions}

\* struct Answer; the id is the constant AnswerId("1").
AnswerIdConst == 1

A(v, i) == [id |-> AnswerIdConst, content |-> v, question_id |-> i]

BlankQuestion == [id |-> Uninit, title |-> Uninit, content |-> Uninit, tags |-> Uninit]

BlankAnswer == [id |-> Uninit, content |-> Uninit, question_id |-> Uninit]

EmptyMap == [k \in {} |-> Uninit]

(***************************************************************************)
(* HashMap operations.                                                     *)
(***************************************************************************)
\* Mutant of insert: the map is left holding the new entry alone.
insert_alone(m, k, v) == [x \in {k} |-> v]

\* HashMap::insert: the value is stored under the key, replacing any value there.
insert(m, k, v) == [x \in (DOMAIN m) \cup {k} |-> IF x = k THEN v ELSE m[x]]

\* HashMap::remove.
remove(m, k) == [x \in (DOMAIN m) \ {k} |-> m[x]]

\* The value under k before a store to that slot begins.
slot(m, k, blank) == IF k \in DOMAIN m THEN m[k] ELSE blank

\* A Question is moved into its slot field by field: the state of the slot
\* after the first fields (id, title) of new have been written over old.
half_question(old, new) ==
  [id |-> new.id, title |-> new.title, content |-> old.content, tags |-> old.tags]

\* The same for an Answer (id, content first; question_id last).
half_answer(old, new) ==
  [id |-> new.id, content |-> new.content, question_id |-> old.question_id]

(***************************************************************************)
(* Strings are sequences of characters.  usize::from_str accepts an        *)
(* optional "+" followed by one or more decimal digits; every string of    *)
(* the model is short enough not to overflow a usize.                      *)
(***************************************************************************)
Digits == <<"0", "1", "2", "3", "4", "5", "6", "7", "8", "9">>

IsDigit(c) == \E d \in 1..10 : Digits[d] = c

DigitVal(c) == (CHOOSE d \in 1..10 : Digits[d] = c) - 1

RECURSIVE digits_value(_, _)
digits_value(s, acc) ==
  IF s = <<>> THEN acc ELSE digits_value(Tail(s), acc * 10 + DigitVal(Head(s)))

RECURSIVE to_string(_)
\* usize::to_string: the decimal digits of n, no sign, no leading zero.
to_string(n) ==
  IF n < 10 THEN <<Digits[n + 1]>> ELSE to_string(n \div 10) \o <<Digits[(n % 10) + 1]>>

Ok(v) == [kind |-> "Ok", val |-> v]

Err(e) == [kind |-> e, val |-> Uninit]

\* Mutant of parse_usize: a leading "-" is accepted like a leading "+".
parse_usize_signed(s) ==
  IF s = <<>> THEN Err("ParseError")
  ELSE LET body == IF Head(s) \in {"+", "-"} THEN Tail(s) ELSE s
       IN IF body = <<>> \/ (\E i \in 1..Len(body) : ~IsDigit(body[i]))
          THEN Err("ParseError")
          ELSE Ok(digits_value(body, 0))

\* str::parse::<usize>
parse_usize(s) ==
  IF s = <<>> THEN Err("ParseError")
  ELSE LET body == IF Head(s) = "+" THEN Tail(s) ELSE s
       IN IF body = <<>> \/ (\E i \in 1..Len(body) : ~IsDigit(body[i]))
          THEN Err("ParseError")
          ELSE Ok(digits_value(body, 0))

\* struct Pagination, and the absence of one (an empty query map).
Pagination(s, e) == [some |-> TRUE, start |-> s, end |-> e]

NoPage == [some |-> FALSE, start |-> Uninit, end |-> Uninit]

\* The empty HashMap<String, String> of query parameters.
NoParams == [k \in {} |-> <<>>]

\* Mutant of extract_pagination: the bounds are not swapped.
extract_pagination_noswap(params) ==
  IF "start" \in DOMAIN params /\ "end" \in DOMAIN params
  THEN LET start_index == parse_usize(params["start"])
           end_index == parse_usize(params["end"])
       IN IF start_index.kind # "Ok" THEN Err("ParseError")
          ELSE IF end_index.kind # "Ok" THEN Err("ParseError")
          ELSE Ok(Pagination(start_index.val, end_index.val))
  ELSE Err("MissingParameters")

\* Mutant of extract_pagination: the values present are parsed before the
\* keys are checked.
extract_pagination_parse_first(params) ==
  IF \E k \in (DOMAIN params) \cap {"start", "end"} : parse_usize(params[k]).kind # "Ok"
  THEN Err("ParseError")
  ELSE IF "start" \in DOMAIN params /\ "end" \in DOMAIN params
  THEN LET start_index == parse_usize(params["start"]).val
           end_index == parse_usize(params["end"]).val
       IN IF start_index > end_index
          THEN Ok(Pagination(end_index, start_index))
          ELSE Ok(Pagination(start_index, end_index))
  ELSE Err("MissingParameters")

\* fn extract_pagination (ch04-answers, ch05, ch06: the same text).
extract_pagination(params) ==
  IF "start" \in DOMAIN params /\ "end" \in DOMAIN params
  THEN LET start_index == parse_usize(params["start"])
           end_index == parse_usize(params["end"])
       IN IF start_index.kind # "Ok" THEN Err("ParseError")
          ELSE IF end_index.kind # "Ok" THEN Err("ParseError")
          ELSE IF start_index.val > end_index.val
               THEN Ok(Pagination(end_index.val, start_index.val))
               ELSE Ok(Pagination(start_index.val, end_index.val))
  ELSE Err("MissingParameters")

\* The slice &data[a..b] of 0-based half-open bounds: it panics unless
\* a <= b <= data.len().
slice(data, a, b) ==
  IF a > b \/ b > Len(data) THEN Err("Panic") ELSE Ok(SubSeq(data, a + 1, b))

\* get_questions of ch04-answers and ch05, from the clamps to the slice.
result_set(data, pagination) ==
  LET end == IF pagination.end > Len(data) THEN Len(data) ELSE pagination.end
      start == IF pagination.start < 1 THEN 1 ELSE pagination.start
  IN slice(data, start - 1, end)

\* get_questions of ch04-answers, from the clamps to the slice.
result_set_answers(data, pagination) ==
  LET end == IF pagination.end > Len(data) THEN Len(data) ELSE pagination.end
      start == IF pagination.start < 1 THEN 1 ELSE pagination.start
  IN slice(data, start - 1, end)

\* Mutant of result_set_ch04: start is a 1-based position, as in the later
\* chapters.
result_set_ch04_one_based(data, pagination) ==
  LET end == IF pagination.end > Len(data) THEN Len(data) ELSE pagination.end
      start == IF pagination.start < 1 THEN 1 ELSE pagination.start
  IN slice(data, start - 1, end)

\* get_questions of ch04 post-put-delete: end is clamped, start is used as is.
result_set_ch04(data, pagination) ==
  LET end == IF pagination.end > Len(data) THEN Len(data) ELSE pagination.end
  IN slice(data, pagination.start, end)

\* HashMap::values().cloned().collect(): the values in the map's iteration
\* order, which the map does not specify.
values(m) ==
  LET n == Cardinality(DOMAIN m)
      orders == {f \in [1..n -> DOMAIN m] : \A k \in DOMAIN m : \E i \in 1..n : f[i] = k}
  IN {[i \in 1..n |-> m[f[i]]] : f \in orders}

(***************************************************************************)
(* State.                                                                  *)
(***************************************************************************)
VARIABLES
  questions,  \* Store.questions: HashMap<QuestionId, Question>
  answers,    \* Store.answers: HashMap<AnswerId, Answer>
  readers,    \* per collection, the tasks holding a read guard of its RwLock
  writers,    \* per collection, the tasks holding its write guard
  waitq,      \* per collection, the tasks awaiting the lock, first come first
  pc,         \* per task, where its handler stands
  op,         \* per task, the handler it runs
  arg,        \* per task, the handler's arguments and locals
  data,       \* per task, get_questions' local `data`
  result      \* per task, what the handler returned

vars == <<questions, answers, readers, writers, waitq, pc, op, arg, data, result>>

store == <<questions, answers>>

locks == <<readers, writers, waitq>>

NoArg == [id |-> Uninit, question |-> BlankQuestion, answer |-> BlankAnswer,
          params |-> NoParams, pagination |-> NoPage]

NoResult == [kind |-> "None", rows |-> <<>>]

Reply(kind, rows) == [kind |-> kind, rows |-> rows]

\* The collection a handler locks.
coll(o) == IF o = "add_answer" THEN "answers" ELSE "questions"

\* The stores questions.json may hold: any set of ids, each with its record.
SeedStores == {[i \in ids |-> Q(i, 1)] : ids \in SUBSET QIds}

\* Store::new
Init ==
  /\ questions \in SeedStores
  /\ answers = EmptyMap
  /\ readers = [c \in Colls |-> {}]
  /\ writers = [c \in Colls |-> {}]
  /\ waitq = [c \in Colls |-> <<>>]
  /\ pc = [p \in Tasks |-> "idle"]
  /\ op = [p \in Tasks |-> "none"]
  /\ arg = [p \in Tasks |-> NoArg]
  /\ data = [p \in Tasks |-> <<>>]
  /\ result = [p \in Tasks |-> NoResult]

(***************************************************************************)
(* tokio::sync::RwLock: any number of readers or one writer; the tasks     *)
(* awaiting it are served first come first, so that a reader that arrives  *)
(* after a waiting writer waits behind it.                                 *)
(***************************************************************************)
\* RwLock::read() / write() that has to wait: the task joins the queue.
enqueue(q, c, p) == [q EXCEPT ![c] = Append(@, p)]

\* The queue without task p: p was granted the lock, or dropped its future.
dequeue(q, c, p) == [q EXCEPT ![c] = SelectSeq(@, LAMBDA x : x # p)]

\* Mutant of can_read: a reader is admitted while a writer holds the lock.
can_read_beside_writer(c, p) == /\ waitq[c] # <<>>
                                /\ Head(waitq[c]) = p

\* Mutant of can_write: a writer is admitted while readers hold the lock.
can_write_beside_readers(c, p) == /\ waitq[c] # <<>>
                                  /\ Head(waitq[c]) = p
                                  /\ writers[c] = {}

\* Mutant of release: the guard is never given back.
release_never(held, c, p) == held

\* The read guard can be granted to p.
can_read(c, p) == /\ waitq[c] # <<>>
                  /\ Head(waitq[c]) = p
                  /\ writers[c] = {}

\* The write guard can be granted to p.
can_write(c, p) == /\ waitq[c] # <<>>
                   /\ Head(waitq[c]) = p
                   /\ writers[c] = {}
                   /\ readers[c] = {}

\* Drop of a RwLockReadGuard / RwLockWriteGuard held by p.
release(held, c, p) == [held EXCEPT ![c] = @ \ {p}]

\* A handler returns: its reply stays, `data` is dropped.
finish(p, kind, rows) ==
  /\ pc' = [pc EXCEPT ![p] = "done"]
  /\ result' = [result EXCEPT ![p] = Reply(kind, rows)]
  /\ data' = [data EXCEPT ![p] = <<>>]

(***************************************************************************)
(* Query maps and forms the requests of the concurrent model carry.        *)
(***************************************************************************)
start_end(s, e) == [k \in {"start", "end"} |-> IF k = "start" THEN s ELSE e]

QueryMaps ==
  {NoParams}
    \cup {start_end(to_string(s), to_string(MaxReq)) : s \in 1..MaxReq}
    \cup {[k \in {"start"} |-> to_string(1)], start_end(<<"a", "b", "c">>, to_string(1))}

form(v, i) == [k \in {"content", "question_id"} |-> IF k = "content" THEN v ELSE i]

Forms == {form(v, i) : v \in Versions, i \in QIds}
           \cup {[k \in {"content"} |-> v] : v \in Versions}

(***************************************************************************)
(* get_questions                                                           *)
(***************************************************************************)
\* Entry, up to the first await: extract_pagination, then read().
get_questions_call(p, params) ==
  /\ pc[p] = "idle"
  /\ op' = [op EXCEPT ![p] = "get_questions"]
  /\ LET r == IF params = NoParams THEN Ok(NoPage) ELSE extract_pagination(params)
     IN IF r.kind = "Ok"
        THEN /\ arg' = [arg EXCEPT ![p].params = params, ![p].pagination = r.val]
             /\ waitq' = enqueue(waitq, "questions", p)
             /\ pc' = [pc EXCEPT ![p] = "read_wait"]
             /\ UNCHANGED <<data, result>>
        ELSE /\ arg' = [arg EXCEPT ![p].params = params]
             /\ finish(p, r.kind, <<>>)
             /\ UNCHANGED waitq
  /\ UNCHANGED <<questions, answers, readers, writers>>

\* store.questions.read().await resolves.
read_acquire(p) ==
  /\ pc[p] = "read_wait"
  /\ can_read(coll(op[p]), p)
  /\ readers' = [readers EXCEPT ![coll(op[p])] = @ \cup {p}]
  /\ waitq' = dequeue(waitq, coll(op[p]), p)
  /\ pc' = [pc EXCEPT ![p] = "reading"]
  /\ UNCHANGED <<questions, answers, writers, op, arg, data, result>>

\* Mutant of get_questions_collect: nothing is collected.
get_questions_collect_none(p) ==
  /\ pc[p] = "reading"
  /\ data' = [data EXCEPT ![p] = <<>>]
  /\ readers' = release(readers, "questions", p)
  /\ pc' = [pc EXCEPT ![p] = "collected"]
  /\ UNCHANGED <<questions, answers, writers, waitq, op, arg, result>>

\* .values().cloned().collect(); the guard is dropped at the end of the statement.
get_questions_collect(p) ==
  /\ pc[p] = "reading"
  /\ \E d \in values(questions) : data' = [data EXCEPT ![p] = d]
  /\ readers' = release(readers, "questions", p)
  /\ pc' = [pc EXCEPT ![p] = "collected"]
  /\ UNCHANGED <<questions, answers, writers, waitq, op, arg, result>>

\* Mutant of get_questions_reply: a listing without bounds is given the
\* bounds (1, 1).
get_questions_reply_bounded(p) ==
  /\ pc[p] = "collected" /\ op[p] = "get_questions"
  /\ LET r == IF arg[p].pagination.some
              THEN result_set(data[p], arg[p].pagination)
              ELSE result_set(data[p], Pagination(1, 1))
     IN finish(p, r.kind, IF r.kind = "Ok" THEN r.val ELSE <<>>)
  /\ UNCHANGED <<questions, answers, readers, writers, waitq, op, arg>>

\* Mutant of get_questions_reply: the bounds are clamped against, and the
\* slice taken of, the questions stored when the reply is made.
get_questions_reply_live(p) ==
  /\ pc[p] = "collected" /\ op[p] = "get_questions"
  /\ \E d \in values(questions) :
       LET r == IF arg[p].pagination.some
                THEN result_set(d, arg[p].pagination)
                ELSE Ok(d)
       IN finish(p, r.kind, IF r.kind = "Ok" THEN r.val ELSE <<>>)
  /\ UNCHANGED <<questions, answers, readers, writers, waitq, op, arg>>

\* The clamps, the slice and the reply.
get_questions_reply(p) ==
  /\ pc[p] = "collected" /\ op[p] = "get_questions"
  /\ LET r == IF arg[p].pagination.some
              THEN result_set(data[p], arg[p].pagination)
              ELSE Ok(data[p])
     IN finish(p, r.kind, IF r.kind = "Ok" THEN r.val ELSE <<>>)
  /\ UNCHANGED <<questions, answers, readers, writers, waitq, op, arg>>

\* The same step of ch04 post-put-delete's get_questions.
get_questions_reply_ch04(p) ==
  /\ pc[p] = "collected" /\ op[p] = "get_questions_ch04"
  /\ LET r == IF arg[p].pagination.some
              THEN result_set_ch04(data[p], arg[p].pagination)
              ELSE Ok(data[p])
     IN finish(p, r.kind, IF r.kind = "Ok" THEN r.val ELSE <<>>)
  /\ UNCHANGED <<questions, answers, readers, writers, waitq, op, arg>>

\* The same step of ch04-answers' get_questions.
get_questions_reply_answers(p) ==
  /\ pc[p] = "collected" /\ op[p] = "get_questions_answers"
  /\ LET r == IF arg[p].pagination.some
              THEN result_set_answers(data[p], arg[p].pagination)
              ELSE Ok(data[p])
     IN finish(p, r.kind, IF r.kind = "Ok" THEN r.val ELSE <<>>)
  /\ UNCHANGED <<questions, answers, readers, writers, waitq, op, arg>>

(***************************************************************************)
(* add_question, update_question, delete_question                          *)
(***************************************************************************)
add_question_call(p, question) ==
  /\ pc[p] = "idle"
  /\ op' = [op EXCEPT ![p] = "add_question"]
  /\ arg' = [arg EXCEPT ![p].id = question.id, ![p].question = question]
  /\ waitq' = enqueue(waitq, "questions", p)
  /\ pc' = [pc EXCEPT ![p] = "write_wait"]
  /\ UNCHANGED <<questions, answers, readers, writers, data, result>>

update_question_call(p, id, question) ==
  /\ pc[p] = "idle"
  /\ op' = [op EXCEPT ![p] = "update_question"]
  /\ arg' = [arg EXCEPT ![p].id = id, ![p].question = question]
  /\ waitq' = enqueue(waitq, "questions", p)
  /\ pc' = [pc EXCEPT ![p] = "write_wait"]
  /\ UNCHANGED <<questions, answers, readers, writers, data, result>>

delete_question_call(p, id) ==
  /\ pc[p] = "idle"
  /\ op' = [op EXCEPT ![p] = "delete_question"]
  /\ arg' = [arg EXCEPT ![p].id = id]
  /\ waitq' = enqueue(waitq, "questions", p)
  /\ pc' = [pc EXCEPT ![p] = "write_wait"]
  /\ UNCHANGED <<questions, answers, readers, writers, data, result>>

\* store.questions.write().await / store.answers.write().await resolves.
write_acquire(p) ==
  /\ pc[p] = "write_wait"
  /\ can_write(coll(op[p]), p)
  /\ writers' = [writers EXCEPT ![coll(op[p])] = @ \cup {p}]
  /\ waitq' = dequeue(waitq, coll(op[p]), p)
  /\ pc' = [pc EXCEPT ![p] = "writing"]
  /\ UNCHANGED <<questions, answers, readers, op, arg, data, result>>

\* Mutant of add_question_insert: an id that is already stored is rejected.
add_question_insert_unique(p) ==
  /\ pc[p] = "writing" /\ op[p] = "add_question"
  /\ IF arg[p].id \in DOMAIN questions
     THEN /\ writers' = release(writers, "questions", p)
          /\ finish(p, "QuestionNotFound", <<>>)
          /\ UNCHANGED questions
     ELSE /\ questions' = insert(questions, arg[p].id,
                                 half_question(BlankQuestion, arg[p].question))
          /\ pc' = [pc EXCEPT ![p] = "storing"]
          /\ UNCHANGED <<writers, data, result>>
  /\ UNCHANGED <<answers, readers, waitq, op, arg>>

\* .insert(question.id.clone(), question): the slot is found or made, and the
\* first fields of the question are moved into it.
add_question_insert(p) ==
  /\ pc[p] = "writing" /\ op[p] = "add_question"
  /\ questions' = insert(questions, arg[p].id,
                         half_question(slot(questions, arg[p].id, BlankQuestion),
                                       arg[p].question))
  /\ pc' = [pc EXCEPT ![p] = "storing"]
  /\ UNCHANGED <<answers, readers, writers, waitq, op, arg, data, result>>

\* The rest of the question is moved, the guard is dropped, Ok is returned.
add_question_done(p) ==
  /\ pc[p] = "storing" /\ op[p] = "add_question"
  /\ questions' = insert(questions, arg[p].id, arg[p].question)
  /\ writers' = release(writers, "questions", p)
  /\ finish(p, "Ok", <<>>)
  /\ UNCHANGED <<answers, readers, waitq, op, arg>>

\* Mutant of update_question_get_mut: an absent id is inserted.
update_question_upsert(p) ==
  /\ pc[p] = "writing" /\ op[p] = "update_question"
  /\ questions' = insert(questions, arg[p].id,
                         half_question(slot(questions, arg[p].id, BlankQuestion),
                                       arg[p].question))
  /\ pc' = [pc EXCEPT ![p] = "storing"]
  /\ UNCHANGED <<answers, readers, writers, waitq, op, arg, data, result>>

\* Mutant of update_question_get_mut: the guard is dropped once the id has
\* been found, before the question is written.
update_question_get_mut_unlocked(p) ==
  /\ pc[p] = "writing" /\ op[p] = "update_question"
  /\ writers' = release(writers, "questions", p)
  /\ IF arg[p].id \in DOMAIN questions
     THEN /\ pc' = [pc EXCEPT ![p] = "storing"]
          /\ UNCHANGED <<data, result>>
     ELSE finish(p, "QuestionNotFound", <<>>)
  /\ UNCHANGED <<questions, answers, readers, waitq, op, arg>>

\* .get_mut(&QuestionId(id)): None returns QuestionNotFound; Some(q) begins
\* *q = question.
update_question_get_mut(p) ==
  /\ pc[p] = "writing" /\ op[p] = "update_question"
  /\ IF arg[p].id \in DOMAIN questions
     THEN /\ questions' = [questions EXCEPT
                             ![arg[p].id] = half_question(@, arg[p].question)]
          /\ pc' = [pc EXCEPT ![p] = "storing"]
          /\ UNCHANGED <<writers, data, result>>
     ELSE /\ writers' = release(writers, "questions", p)
          /\ finish(p, "QuestionNotFound", <<>>)
          /\ UNCHANGED questions
  /\ UNCHANGED <<answers, readers, waitq, op, arg>>

\* Mutant of update_question_done: the fields written last keep their old values.
update_question_merge(p) ==
  /\ pc[p] = "storing" /\ op[p] = "update_question"
  /\ questions' = questions
  /\ writers' = release(writers, "questions", p)
  /\ finish(p, "Ok", <<>>)
  /\ UNCHANGED <<answers, readers, waitq, op, arg>>

\* *q = question completes, the guard is dropped, Ok is returned.
update_question_done(p) ==
  /\ pc[p] = "storing" /\ op[p] = "update_question"
  /\ questions' = [questions EXCEPT ![arg[p].id] = arg[p].question]
  /\ writers' = release(writers, "questions", p)
  /\ finish(p, "Ok", <<>>)
  /\ UNCHANGED <<answers, readers, waitq, op, arg>>

\* Mutant of delete_question_remove: Ok is returned whatever remove() found.
delete_question_always_ok(p) ==
  /\ pc[p] = "writing" /\ op[p] = "delete_question"
  /\ questions' = remove(questions, arg[p].id)
  /\ writers' = release(writers, "questions", p)
  /\ finish(p, "Ok", <<>>)
  /\ UNCHANGED <<answers, readers, waitq, op, arg>>

\* Mutant of delete_question_remove: the answers to the question are removed
\* with it.
delete_question_cascade(p) ==
  /\ pc[p] = "writing" /\ op[p] = "delete_question"
  /\ questions' = remove(questions, arg[p].id)
  /\ answers' = [k \in {j \in DOMAIN answers : answers[j].question_id # arg[p].id}
                    |-> answers[k]]
  /\ writers' = release(writers, "questions", p)
  /\ finish(p, IF arg[p].id \in DOMAIN questions THEN "Ok" ELSE "QuestionNotFound", <<>>)
  /\ UNCHANGED <<readers, waitq, op, arg>>

\* .remove(&QuestionId(id)): Some(_) returns Ok, None QuestionNotFound.
delete_question_remove(p) ==
  /\ pc[p] = "writing" /\ op[p] = "delete_question"
  /\ questions' = remove(questions, arg[p].id)
  /\ writers' = release(writers, "questions", p)
  /\ finish(p, IF arg[p].id \in DOMAIN questions THEN "Ok" ELSE "QuestionNotFound", <<>>)
  /\ UNCHANGED <<answers, readers, waitq, op, arg>>

(***************************************************************************)
(* add_answer                                                              *)
(***************************************************************************)
\* Mutant of add_answer_call: an answer to a question that is not stored is
\* refused.
add_answer_call_checked(p, params) ==
  /\ pc[p] = "idle"
  /\ op' = [op EXCEPT ![p] = "add_answer"]
  /\ IF "content" \in DOMAIN params /\ "question_id" \in DOMAIN params
     THEN /\ arg' = [arg EXCEPT ![p].id = AnswerIdConst,
                                ![p].answer = A(params["content"], params["question_id"])]
          /\ IF params["question_id"] \in DOMAIN questions
             THEN /\ waitq' = enqueue(waitq, "answers", p)
                  /\ pc' = [pc EXCEPT ![p] = "write_wait"]
                  /\ UNCHANGED <<data, result>>
             ELSE /\ finish(p, "QuestionNotFound", <<>>)
                  /\ UNCHANGED waitq
     ELSE /\ finish(p, "Panic", <<>>)
          /\ UNCHANGED <<arg, waitq>>
  /\ UNCHANGED <<questions, answers, readers, writers>>

\* Mutant of add_answer_call: the answer is keyed by the id of its question.
add_answer_call_keyed(p, params) ==
  /\ pc[p] = "idle"
  /\ op' = [op EXCEPT ![p] = "add_answer"]
  /\ IF "content" \in DOMAIN params /\ "question_id" \in DOMAIN params
     THEN /\ arg' = [arg EXCEPT ![p].id = params["question_id"],
                                ![p].answer = A(params["content"], params["question_id"])]
          /\ waitq' = enqueue(waitq, "answers", p)
          /\ pc' = [pc EXCEPT ![p] = "write_wait"]
          /\ UNCHANGED <<data, result>>
     ELSE /\ finish(p, "Panic", <<>>)
          /\ UNCHANGED <<arg, waitq>>
  /\ UNCHANGED <<questions, answers, readers, writers>>

\* Entry: the Answer is built (params.get(..).unwrap() panics on an absent
\* key), then write().
add_answer_call(p, params) ==
  /\ pc[p] = "idle"
  /\ op' = [op EXCEPT ![p] = "add_answer"]
  /\ IF "content" \in DOMAIN params /\ "question_id" \in DOMAIN params
     THEN /\ arg' = [arg EXCEPT ![p].id = AnswerIdConst,
                                ![p].answer = A(params["content"], params["question_id"])]
          /\ waitq' = enqueue(waitq, "answers", p)
          /\ pc' = [pc EXCEPT ![p] = "write_wait"]
          /\ UNCHANGED <<data, result>>
     ELSE /\ finish(p, "Panic", <<>>)
          /\ UNCHANGED <<arg, waitq>>
  /\ UNCHANGED <<questions, answers, readers, writers>>

add_answer_insert(p) ==
  /\ pc[p] = "writing" /\ op[p] = "add_answer"
  /\ answers' = insert(answers, arg[p].id,
                       half_answer(slot(answers, arg[p].id, BlankAnswer), arg[p].answer))
  /\ pc' = [pc EXCEPT ![p] = "storing"]
  /\ UNCHANGED <<questions, readers, writers, waitq, op, arg, data, result>>

add_answer_done(p) ==
  /\ pc[p] = "storing" /\ op[p] = "add_answer"
  /\ answers' = insert(answers, arg[p].id, arg[p].answer)
  /\ writers' = release(writers, "answers", p)
  /\ finish(p, "Ok", <<>>)
  /\ UNCHANGED <<questions, readers, waitq, op, arg>>

(***************************************************************************)
(* The transport layer: it may drop a request's task at an await, and it   *)
(* ends the task once the handler has returned.                            *)
(***************************************************************************)
\* Mutant of cancel: the dropped future stays in the queue.
cancel_stays_queued(p) ==
  /\ pc[p] \in {"read_wait", "write_wait"}
  /\ pc' = [pc EXCEPT ![p] = "cancelled"]
  /\ UNCHANGED <<questions, answers, readers, writers, waitq, op, arg, data, result>>

\* The future is dropped while it awaits the lock: it leaves the queue.
cancel(p) ==
  /\ pc[p] \in {"read_wait", "write_wait"}
  /\ waitq' = dequeue(waitq, coll(op[p]), p)
  /\ pc' = [pc EXCEPT ![p] = "cancelled"]
  /\ UNCHANGED <<questions, answers, readers, writers, op, arg, data, result>>

\* The reply has been sent (or the task is gone): the task slot is free again.
task_end(p) ==
  /\ pc[p] \in {"done", "cancelled"}
  /\ pc' = [pc EXCEPT ![p] = "idle"]
  /\ op' = [op EXCEPT ![p] = "none"]
  /\ arg' = [arg EXCEPT ![p] = NoArg]
  /\ data' = [data EXCEPT ![p] = <<>>]
  /\ result' = [result EXCEPT ![p] = NoResult]
  /\ UNCHANGED <<questions, answers, readers, writers, waitq>>

\* A request arrives and is given the first free task slot.
call(p) ==
  /\ \A q \in Tasks : q < p => pc[q] # "idle"
  /\ \/ \E params \in QueryMaps : get_questions_call(p, params)
     \/ \E question \in Bodies : add_question_call(p, question)
     \/ \E id \in QIds, question \in Bodies : update_question_call(p, id, question)
     \/ \E id \in QIds : delete_question_call(p, id)
     \/ \E params \in Forms : add_answer_call(p, params)

\* A step of a handler that is under way.
step(p) ==
  \/ read_acquire(p)
  \/ get_questions_collect(p)
  \/ get_questions_reply(p)
  \/ write_acquire(p)
  \/ add_question_insert(p)
  \/ add_question_done(p)
  \/ update_question_get_mut(p)
  \/ update_question_done(p)
  \/ delete_question_remove(p)
  \/ add_answer_insert(p)
  \/ add_answer_done(p)

Next == \E p \in Tasks : call(p) \/ step(p) \/ cancel(p) \/ task_end(p)

Spec == Init /\ [][Next]_vars

\* The scheduler polls every task that can run, and the lock is granted first
\* come first: each task's handler steps are weakly fair.  Requests arriving,
\* being abandoned and being cleared away are not.
FairSpec == Spec /\ \A p \in Tasks : WF_vars(step(p))

(***************************************************************************)
(* Concurrent add_question calls alone: task p adds a question under the   *)
(* id MaxId + p, which no stored question and no other task uses.          *)
(***************************************************************************)
AddsNext ==
  \E p \in Tasks :
    \/ \E v \in Versions : add_question_call(p, Q(MaxId + p, v))
    \/ write_acquire(p)
    \/ add_question_insert(p)
    \/ add_question_done(p)

SpecAdds == Init /\ [][AddsNext]_vars

(***************************************************************************)
(* The paginated listing on its own: one task that has collected a listing *)
(* of n questions for a request with bounds (start, end), in each of the   *)
(* two variants of get_questions, and is about to reply.                   *)
(***************************************************************************)
\* Largest number of questions listed.
MaxRows == 10
\* The bounds requested are 0..MaxIndex and BigIndex.
MaxIndex == 6
BigIndex == 1000

PageIndexes == (0..MaxIndex) \cup {BigIndex}

listing(n) == [i \in 1..n |-> Q(i, 1)]

PageInit ==
  /\ \E n \in 0..MaxRows :
       /\ questions = listing(n)
       /\ data = [p \in Tasks |-> IF p = 1 THEN listing(n) ELSE <<>>]
  /\ \E s \in PageIndexes, e \in PageIndexes :
       LET params == start_end(to_string(s), to_string(e))
       IN arg = [p \in Tasks |->
                   IF p = 1
                   THEN [NoArg EXCEPT !.params = params,
                                      !.pagination = extract_pagination(params).val]
                   ELSE NoArg]
  /\ answers = EmptyMap
  /\ readers = [c \in Colls |-> {}]
  /\ writers = [c \in Colls |-> {}]
  /\ waitq = [c \in Colls |-> <<>>]
  /\ pc = [p \in Tasks |-> IF p = 1 THEN "collected" ELSE "idle"]
  /\ op \in {[p \in Tasks |-> IF p = 1 THEN o ELSE "none"] :
               o \in {"get_questions", "get_questions_ch04", "get_questions_answers"}}
  /\ result = [p \in Tasks |-> NoResult]

PageNext ==
  \/ get_questions_reply(1)
  \/ get_questions_reply_ch04(1)
  \/ get_questions_reply_answers(1)

SpecPage == PageInit /\ [][PageNext]_vars

(***************************************************************************)
(* The offset/limit variant of the listing (ch07): the questions are rows  *)
(* of a PostgreSQL table, read by SELECT * from questions LIMIT $1 OFFSET  *)
(* $2.  The table is the map `questions`; no lock of the service guards it.*)
(***************************************************************************)
\* i32::MAX
I32_MAX == 2147483647

RECURSIVE i32_digits(_, _, _)
\* The digit loop of i32::from_str: the value is accumulated with checked
\* arithmetic, downwards for a negative number; acc is the value so far.
i32_digits(s, acc, neg) ==
  IF s = <<>> THEN Ok(acc)
  ELSE IF ~IsDigit(Head(s)) THEN Err("ParseError")
  ELSE LET d == DigitVal(Head(s))
       IN IF neg
          THEN IF \/ acc < -(I32_MAX \div 10)
                  \/ (d > 0 /\ -acc > (I32_MAX - (d - 1)) \div 10)
               THEN Err("ParseError")
               ELSE i32_digits(Tail(s), acc * 10 - d, neg)
          ELSE IF acc > (I32_MAX - d) \div 10
               THEN Err("ParseError")
               ELSE i32_digits(Tail(s), acc * 10 + d, neg)

\* str::parse::<i32>: an optional sign, then one or more digits, within
\* the range of an i32.
parse_i32(s) ==
  IF s = <<>> THEN Err("ParseError")
  ELSE IF Head(s) \in {"+", "-"}
       THEN IF Tail(s) = <<>> THEN Err("ParseError")
            ELSE i32_digits(Tail(s), 0, Head(s) = "-")
       ELSE i32_digits(s, 0, FALSE)

\* Option<i32>
Some(v) == [some |-> TRUE, val |-> v]

None == [some |-> FALSE, val |-> Uninit]

\* struct Pagination of the offset/limit variant, and Pagination::default().
PaginationSql(o, l) == [offset |-> o, limit |-> l]

PaginationDefault == PaginationSql(0, None)

\* Mutant of extract_pagination_sql: a negative bound is a ParseError.
extract_pagination_sql_unsigned(params) ==
  IF "offset" \in DOMAIN params /\ "limit" \in DOMAIN params
  THEN LET offset_value == parse_i32(params["offset"])
           limit_value == parse_i32(params["limit"])
       IN IF offset_value.kind # "Ok" \/ offset_value.val < 0 THEN Err("ParseError")
          ELSE IF limit_value.kind # "Ok" \/ limit_value.val < 0 THEN Err("ParseError")
          ELSE Ok(PaginationSql(offset_value.val, Some(limit_value.val)))
  ELSE Err("MissingParameters")

\* fn extract_pagination of the offset/limit variant.
extract_pagination_sql(params) ==
  IF "offset" \in DOMAIN params /\ "limit" \in DOMAIN params
  THEN LET offset_value == parse_i32(params["offset"])
           limit_value == parse_i32(params["limit"])
       IN IF offset_value.kind # "Ok" THEN Err("ParseError")
          ELSE IF limit_value.kind # "Ok" THEN Err("ParseError")
          ELSE Ok(PaginationSql(offset_value.val, Some(limit_value.val)))
  ELSE Err("MissingParameters")

\* LIMIT limit OFFSET offset over the rows d, both non-negative: the rows
\* after the first `offset`, at most `limit` of them (all, for LIMIT NULL).
limit_offset(d, offset, limit) ==
  IF offset >= Len(d) THEN <<>>
  ELSE LET last == IF limit.some /\ limit.val < Len(d) - offset
                   THEN offset + limit.val
                   ELSE Len(d)
       IN SubSeq(d, offset + 1, last)

\* What a store function of the offset/limit variant returns: its result,
\* with the number of rows the statement affected and, when the statement
\* failed, the sqlx::Error ("" when it did not fail).
SqlReply(kind, rows, affected, cause) ==
  [kind |-> kind, rows |-> rows, affected |-> affected, cause |-> cause]

\* Err(err) => Err(QError::DatabaseQueryError(err)): the store function of
\* task p returns the error of its statement.
db_error(p, cause) ==
  /\ pc' = [pc EXCEPT ![p] = "done"]
  /\ result' = [result EXCEPT ![p] = SqlReply("DatabaseQueryError", <<>>, 0, cause)]
  /\ data' = [data EXCEPT ![p] = <<>>]

\* Entry of get_questions, up to the call of Store::get_questions.
get_questions_sql_call(p, params) ==
  /\ pc[p] = "idle"
  /\ op' = [op EXCEPT ![p] = "get_questions_sql"]
  /\ LET r == IF params = NoParams THEN Ok(PaginationDefault)
                                   ELSE extract_pagination_sql(params)
     IN IF r.kind = "Ok"
        THEN /\ arg' = [arg EXCEPT ![p].params = params, ![p].pagination = r.val]
             /\ pc' = [pc EXCEPT ![p] = "querying"]
             /\ UNCHANGED <<data, result>>
        ELSE /\ arg' = [arg EXCEPT ![p].params = params]
             /\ finish(p, r.kind, <<>>)
  /\ UNCHANGED <<questions, answers, readers, writers, waitq>>

\* Store::get_questions(offset, limit): the query runs with the two values
\* bound.  PostgreSQL rejects a negative LIMIT or OFFSET; the rows come in an
\* order the query does not fix.
store_get_questions(p) ==
  /\ pc[p] = "querying" /\ op[p] = "get_questions_sql"
  /\ LET offset == arg[p].pagination.offset
         limit == arg[p].pagination.limit
     IN IF offset < 0 \/ (limit.some /\ limit.val < 0)
        THEN db_error(p, "LIMIT or OFFSET must not be negative")
        ELSE \E d \in values(questions) :
               finish(p, "Ok", limit_offset(d, offset, limit))
  /\ UNCHANGED <<questions, answers, readers, writers, waitq, op, arg>>

(***************************************************************************)
(* Listing requests on their own: one task serves, one after the other,    *)
(* listing requests of the start/end variant and of the offset/limit       *)
(* variant, with every query map over the bound keys and one unrelated key.*)
(***************************************************************************)
\* Values of the start/end keys.
UsizeTexts ==
  {<<>>, <<"0">>, <<"1">>, <<"2">>, <<"+", "1">>, <<"-", "1">>,
   <<"a", "b", "c">>, <<"1", "0", "0", "0">>}

\* Values of the offset/limit keys.
I32Texts ==
  {<<>>, <<"0">>, <<"1">>, <<"2">>, <<"+", "1">>, <<"-", "1">>, <<"-">>,
   <<"a", "b", "c">>,
   <<"2", "1", "4", "7", "4", "8", "3", "6", "4", "7">>,
   <<"2", "1", "4", "7", "4", "8", "3", "6", "4", "8">>,
   <<"-", "2", "1", "4", "7", "4", "8", "3", "6", "4", "8">>,
   <<"-", "2", "1", "4", "7", "4", "8", "3", "6", "4", "9">>}

\* Every HashMap<String, String> whose keys are among `keys`.
query_maps(keys, texts) == UNION {[K -> texts] : K \in SUBSET keys}

ListingNext ==
  \/ \E params \in query_maps({"start", "end", "page"}, UsizeTexts) :
       get_questions_call(1, params)
  \/ read_acquire(1)
  \/ get_questions_collect(1)
  \/ get_questions_reply(1)
  \/ \E params \in query_maps({"offset", "limit", "page"}, I32Texts) :
       get_questions_sql_call(1, params)
  \/ store_get_questions(1)
  \/ task_end(1)

SpecListing == Init /\ [][ListingNext]_vars

(***************************************************************************)
(* return_error: the recovery function that turns a warp Rejection into a  *)
(* reply.  A Rejection holds the causes the filters rejected the request   *)
(* with; rej.find::<T>() yields the cause of type T, if there is one.      *)
(***************************************************************************)
\* StatusCode
NOT_FOUND == 404
BAD_REQUEST == 400
FORBIDDEN == 403
UNPROCESSABLE_ENTITY == 422
RANGE_NOT_SATISFIABLE == 416

\* A cause of a rejection: its Rust type, its variant, and the text of the
\* error it wraps ("" when it wraps none).
Fault(type, kind, cause) == [type |-> type, kind |-> kind, cause |-> cause]

\* Display of the ParseIntError that str::parse::<usize> returns for s.
parse_int_error(s) ==
  IF s = <<>> THEN "cannot parse integer from empty string"
  ELSE "invalid digit found in string"

\* The QError::ParseError values that extract_pagination returns for the
\* texts of the model that do not parse.
ParseErrors(type) ==
  {Fault(type, "ParseError", parse_int_error(t)) :
     t \in {u \in UsizeTexts : parse_usize(u).kind # "Ok"}}

\* enum QError (ch04-answers, ch05, ch06)
QErrors == {Fault("QError", "QuestionNotFound", ""),
            Fault("QError", "MissingParameters", "")} \cup ParseErrors("QError")

\* enum Error (ch04 post-put-delete)
Errors == {Fault("Error", "MissingParameters", "")} \cup ParseErrors("Error")

\* struct InvalidId (ch03)
InvalidIds == {Fault("InvalidId", "InvalidId", "")}

\* warp's CorsForbidden, with the reason it carries.
CorsForbiddens ==
  {Fault("CorsForbidden", "CorsForbidden", c) :
     c \in {"origin not allowed", "request-method not allowed", "header not allowed"}}

\* warp's BodyDeserializeError, with the cause the deserializer reported.
BodyDeserializeErrors ==
  {Fault("BodyDeserializeError", "BodyDeserializeError", c) :
     c \in {"missing field title", "expected value at line 1 column 1"}}

\* Causes that no return_error looks for.
OtherFaults == {Fault("MethodNotAllowed", "MethodNotAllowed", ""),
                Fault("NotFound", "NotFound", "")}

\* The rejections a program can produce from the causes known that its filters
\* and handlers raise: one of them alone or together with causes of routes
\* that did not match, or such causes alone.
Rejections(known) ==
  {{f} \cup o : f \in known, o \in SUBSET OtherFaults}
    \cup ((SUBSET OtherFaults) \ {{}})

\* rej.find::<T>()
find(rej, type) == {f \in rej : f.type = type}

found(rej, type) == CHOOSE f \in rej : f.type = type

\* impl Display for QError / Error / CorsForbidden / BodyDeserializeError
display(error) ==
  CASE error.type = "QError" /\ error.kind = "ParseError" ->
         "Cannot parse the parameter: " \o error.cause
    [] error.type = "QError" /\ error.kind = "MissingParameters" -> "Missing parameter."
    [] error.type = "QError" /\ error.kind = "QuestionNotFound" -> "Question not found."
    [] error.type = "Error" /\ error.kind = "ParseError" ->
         "Cannot parse the parameter: " \o error.cause
    [] error.type = "Error" /\ error.kind = "MissingParameters" -> "Missing parameter"
    [] error.type = "CorsForbidden" -> "CORS request forbidden: " \o error.cause
    [] error.type = "BodyDeserializeError" ->
         "Request body deserialize error: " \o error.cause

\* Ok(warp::reply::with_status(message, status)), and Err(rej).
Response(status, message) ==
  [kind |-> "Reply", rows |-> <<>>, status |-> status, message |-> message]

Unhandled == [kind |-> "Unhandled", rows |-> <<>>, status |-> Uninit, message |-> ""]

\* Mutant of return_error_reply: a rejection with no cause it looks for is
\* passed on.
return_error_reply_passes_on(rej) ==
  IF find(rej, "QError") # {}
  THEN LET error == found(rej, "QError")
       IN IF error.kind = "QuestionNotFound" THEN Response(NOT_FOUND, display(error))
          ELSE Response(BAD_REQUEST, display(error))
  ELSE IF find(rej, "CorsForbidden") # {}
  THEN Response(FORBIDDEN, display(found(rej, "CorsForbidden")))
  ELSE IF find(rej, "BodyDeserializeError") # {}
  THEN Response(UNPROCESSABLE_ENTITY, display(found(rej, "BodyDeserializeError")))
  ELSE Unhandled

\* fn return_error of ch04-answers, ch05 and ch06.
return_error_reply(rej) ==
  IF find(rej, "QError") # {}
  THEN LET error == found(rej, "QError")
       IN CASE error.kind = "QuestionNotFound" -> Response(NOT_FOUND, display(error))
            [] error.kind = "MissingParameters" -> Response(BAD_REQUEST, display(error))
            [] error.kind = "ParseError" -> Response(BAD_REQUEST, display(error))
  ELSE IF find(rej, "CorsForbidden") # {}
  THEN Response(FORBIDDEN, display(found(rej, "CorsForbidden")))
  ELSE IF find(rej, "BodyDeserializeError") # {}
  THEN Response(UNPROCESSABLE_ENTITY, display(found(rej, "BodyDeserializeError")))
  ELSE Response(NOT_FOUND, "Route not found")

\* fn return_error of ch03.
return_error_reply_ch03(rej) ==
  IF find(rej, "CorsForbidden") # {}
  THEN Response(FORBIDDEN, display(found(rej, "CorsForbidden")))
  ELSE IF find(rej, "InvalidId") # {}
  THEN Response(UNPROCESSABLE_ENTITY, "No valid ID given")
  ELSE Response(NOT_FOUND, "Route not found")

\* fn return_error of ch04 post-put-delete.
return_error_reply_ch04(rej) ==
  IF find(rej, "Error") # {}
  THEN Response(RANGE_NOT_SATISFIABLE, display(found(rej, "Error")))
  ELSE IF find(rej, "CorsForbidden") # {}
  THEN Response(FORBIDDEN, display(found(rej, "CorsForbidden")))
  ELSE Response(NOT_FOUND, "Route not found")

\* .recover(return_error): the rejection of task p is given to return_error
\* (ch04-answers, ch05, ch06), whose reply is sent.
return_error(p, rej) ==
  /\ pc[p] = "idle"
  /\ op' = [op EXCEPT ![p] = "return_error"]
  /\ arg' = [arg EXCEPT ![p] = [rej |-> rej] @@ NoArg]
  /\ pc' = [pc EXCEPT ![p] = "done"]
  /\ result' = [result EXCEPT ![p] = return_error_reply(rej)]
  /\ UNCHANGED <<questions, answers, readers, writers, waitq, data>>

\* The same with the return_error of ch03.
return_error_ch03(p, rej) ==
  /\ pc[p] = "idle"
  /\ op' = [op EXCEPT ![p] = "return_error_ch03"]
  /\ arg' = [arg EXCEPT ![p] = [rej |-> rej] @@ NoArg]
  /\ pc' = [pc EXCEPT ![p] = "done"]
  /\ result' = [result EXCEPT ![p] = return_error_reply_ch03(rej)]
  /\ UNCHANGED <<questions, answers, readers, writers, waitq, data>>

\* The same with the return_error of ch04 post-put-delete.
return_error_ch04(p, rej) ==
  /\ pc[p] = "idle"
  /\ op' = [op EXCEPT ![p] = "return_error_ch04"]
  /\ arg' = [arg EXCEPT ![p] = [rej |-> rej] @@ NoArg]
  /\ pc' = [pc EXCEPT ![p] = "done"]
  /\ result' = [result EXCEPT ![p] = return_error_reply_ch04(rej)]
  /\ UNCHANGED <<questions, answers, readers, writers, waitq, data>>

\* The rejections of each program.
Rejections_ch06 == Rejections(QErrors \cup CorsForbiddens \cup BodyDeserializeErrors)

Rejections_ch03 == Rejections(InvalidIds \cup CorsForbiddens)

Rejections_ch04 == Rejections(Errors \cup CorsForbiddens \cup BodyDeserializeErrors)

ErrorsNext ==
  \E p \in Tasks :
    \/ \E rej \in Rejections_ch06 : return_error(p, rej)
    \/ \E rej \in Rejections_ch03 : return_error_ch03(p, rej)
    \/ \E rej \in Rejections_ch04 : return_error_ch04(p, rej)
    \/ task_end(p)

SpecErrors == Init /\ [][ErrorsNext]_vars

(***************************************************************************)
(* QuestionId::from_str, in the variant whose ids are strings and in the   *)
(* variant whose ids are i32.                                              *)
(***************************************************************************)
\* str::to_string: a new String with the characters of the slice.
to_owned(id) == [i \in 1..Len(id) |-> id[i]]

\* i32::to_string, as Display of QuestionId(i32) writes self.0.
i32_to_string(v) ==
  IF v >= 0 THEN to_string(v)
  ELSE LET d == (10 - (v % 10)) % 10
           rest == 0 - ((v + d) \div 10)
       IN <<"-">> \o (IF rest = 0 THEN <<>> ELSE to_string(rest)) \o <<Digits[d + 1]>>

\* Ok(QuestionId(..)), and Err(std::io::Error::new(ErrorKind::InvalidInput, ..)).
IdOk(v) == [kind |-> "Ok", rows |-> <<>>, id |-> v]

InvalidInput == [kind |-> "InvalidInput", rows |-> <<>>, id |-> Uninit]

\* Mutant of from_str_reply: the empty string is accepted too.
from_str_reply_any(id) == IdOk(to_owned(id))

\* impl FromStr for QuestionId(String) (ch02 to ch06).
from_str_reply(id) ==
  IF id = <<>> THEN InvalidInput ELSE IdOk(to_owned(id))

\* Mutant of from_str_i32_reply: a negative id is rejected.
from_str_i32_reply_unsigned(id) ==
  IF id = <<>> THEN InvalidInput
  ELSE LET r == parse_i32(id)
       IN IF r.kind = "Ok" /\ r.val >= 0 THEN IdOk(r.val) ELSE InvalidInput

\* impl FromStr for QuestionId(i32) (ch07).
from_str_i32_reply(id) ==
  IF id = <<>> THEN InvalidInput
  ELSE LET r == parse_i32(id)
       IN IF r.kind = "Ok" THEN IdOk(r.val) ELSE InvalidInput

\* Task p evaluates QuestionId::from_str(raw) of the string-keyed variant.
from_str(p, raw) ==
  /\ pc[p] = "idle"
  /\ op' = [op EXCEPT ![p] = "from_str"]
  /\ arg' = [arg EXCEPT ![p] = [raw |-> raw] @@ NoArg]
  /\ pc' = [pc EXCEPT ![p] = "done"]
  /\ result' = [result EXCEPT ![p] = from_str_reply(raw)]
  /\ UNCHANGED <<questions, answers, readers, writers, waitq, data>>

\* Task p evaluates QuestionId::from_str(raw) of the integer-keyed variant.
from_str_i32(p, raw) ==
  /\ pc[p] = "idle"
  /\ op' = [op EXCEPT ![p] = "from_str_i32"]
  /\ arg' = [arg EXCEPT ![p] = [raw |-> raw] @@ NoArg]
  /\ pc' = [pc EXCEPT ![p] = "done"]
  /\ result' = [result EXCEPT ![p] = from_str_i32_reply(raw)]
  /\ UNCHANGED <<questions, answers, readers, writers, waitq, data>>

\* The texts given to from_str: every text of at most MaxLen characters of
\* IdChars, and the texts around the ends of the i32 range.
MaxLen == 3

IdChars == {"0", "1", "9", "+", "-", "a"}

IdTexts == UNION {[1..n -> IdChars] : n \in 0..MaxLen} \cup I32Texts

IdsNext ==
  \/ \E raw \in IdTexts : from_str(1, raw)
  \/ \E raw \in IdTexts : from_str_i32(1, raw)
  \/ task_end(1)

SpecIds == Init /\ [][IdsNext]_vars

(***************************************************************************)
(* The store functions of the offset/limit variant (ch07) that write: each *)
(* runs one SQL statement on a pooled connection.  The tables are the maps *)
(* questions and answers, keyed by the serial id of the row.               *)
(***************************************************************************)
\* The ids a row of the questions table may get.
RowIds == 1..(MaxId + 1)

\* struct NewQuestion, and a Question of a request body: title and content
\* are told apart.
NewQuestion(t, c) == [id |-> Uninit, title |-> t, content |-> c, tags |-> c]

NewQuestions == {NewQuestion(t, c) : t \in Versions, c \in Versions}

SqlBodies == {[NewQuestion(t, c) EXCEPT !.id = i] : i \in QIds, t \in Versions, c \in Versions}

\* struct NewAnswer
NewAnswers == {[id |-> Uninit, content |-> v, question_id |-> i] : v \in Versions, i \in QIds}

\* The errors a statement can fail with.
DbCauses == {"connection closed", "constraint violated"}

\* The store functions.
SqlOps == {"get_questions_sql", "add_question_sql", "update_question_sql",
           "delete_question_sql", "add_answer_sql"}

\* The statement has run: the store function, and the route after it,
\* return.
sql_return(p, kind, rows, affected) ==
  /\ pc' = [pc EXCEPT ![p] = "done"]
  /\ result' = [result EXCEPT ![p] = SqlReply(kind, rows, affected, "")]
  /\ UNCHANGED <<readers, writers, waitq, op, arg, data>>

\* add_question: store.add_question(question).await
add_question_sql_call(p, question) ==
  /\ pc[p] = "idle"
  /\ op' = [op EXCEPT ![p] = "add_question_sql"]
  /\ arg' = [arg EXCEPT ![p].id = Uninit, ![p].question = question, ![p].answer = BlankAnswer]
  /\ pc' = [pc EXCEPT ![p] = "querying"]
  /\ UNCHANGED <<questions, answers, readers, writers, waitq, data, result>>

\* INSERT INTO questions (title, content, tags) VALUES ($1, $2, $3)
\* RETURNING id, title, content, tags: the row gets an id no row has.
store_add_question(p) ==
  /\ pc[p] = "querying" /\ op[p] = "add_question_sql"
  /\ \E i \in RowIds \ DOMAIN questions :
       LET row == [arg[p].question EXCEPT !.id = i]
       IN /\ questions' = insert(questions, i, row)
          /\ sql_return(p, "Ok", <<row>>, 1)
  /\ UNCHANGED answers

\* update_question: store.update_question(question, id).await
update_question_sql_call(p, id, question) ==
  /\ pc[p] = "idle"
  /\ op' = [op EXCEPT ![p] = "update_question_sql"]
  /\ arg' = [arg EXCEPT ![p].id = id, ![p].question = question, ![p].answer = BlankAnswer]
  /\ pc' = [pc EXCEPT ![p] = "querying"]
  /\ UNCHANGED <<questions, answers, readers, writers, waitq, data, result>>

\* UPDATE questions SET title = $1, content = $2, tags = $3 WHERE id = $4
\* RETURNING id, title, content, tags.  The rows returned are mapped with
\* title: row.get("content"); the route answers Ok with them, none included.
store_update_question(p) ==
  /\ pc[p] = "querying" /\ op[p] = "update_question_sql"
  /\ IF arg[p].id \in DOMAIN questions
     THEN LET row == [arg[p].question EXCEPT !.id = arg[p].id]
          IN /\ questions' = [questions EXCEPT ![arg[p].id] = row]
             /\ sql_return(p, "Ok", <<[row EXCEPT !.title = row.content]>>, 1)
     ELSE /\ UNCHANGED questions
          /\ sql_return(p, "Ok", <<>>, 0)
  /\ UNCHANGED answers

\* delete_question: store.delete_question(id).await
delete_question_sql_call(p, id) ==
  /\ pc[p] = "idle"
  /\ op' = [op EXCEPT ![p] = "delete_question_sql"]
  /\ arg' = [arg EXCEPT ![p].id = id, ![p].question = BlankQuestion, ![p].answer = BlankAnswer]
  /\ pc' = [pc EXCEPT ![p] = "querying"]
  /\ UNCHANGED <<questions, answers, readers, writers, waitq, data, result>>

\* Mutant of store_delete_question: the route answers Ok whatever the count.
store_delete_question_always_ok(p) ==
  /\ pc[p] = "querying" /\ op[p] = "delete_question_sql"
  /\ questions' = remove(questions, arg[p].id)
  /\ sql_return(p, "Ok", <<>>, IF arg[p].id \in DOMAIN questions THEN 1 ELSE 0)
  /\ UNCHANGED answers

\* DELETE FROM questions WHERE id = $1, then the route's match on
\* rows_affected(): 1..=u64::MAX is Ok, 0 is QuestionNotFound.
store_delete_question(p) ==
  /\ pc[p] = "querying" /\ op[p] = "delete_question_sql"
  /\ questions' = remove(questions, arg[p].id)
  /\ LET rows_affected == IF arg[p].id \in DOMAIN questions THEN 1 ELSE 0
     IN sql_return(p, IF rows_affected >= 1 THEN "Ok" ELSE "QuestionNotFound",
                   <<>>, rows_affected)
  /\ UNCHANGED answers

\* add_answer: store.add_answer(answer).await
add_answer_sql_call(p, answer) ==
  /\ pc[p] = "idle"
  /\ op' = [op EXCEPT ![p] = "add_answer_sql"]
  /\ arg' = [arg EXCEPT ![p].id = Uninit, ![p].question = BlankQuestion, ![p].answer = answer]
  /\ pc' = [pc EXCEPT ![p] = "querying"]
  /\ UNCHANGED <<questions, answers, readers, writers, waitq, data, result>>

\* INSERT INTO answers (content, question_id) VALUES ($1, $2): the row gets
\* the next serial id; the statement returns no row.
store_add_answer(p) ==
  /\ pc[p] = "querying" /\ op[p] = "add_answer_sql"
  /\ Cardinality(DOMAIN answers) < MaxId
  /\ LET i == Cardinality(DOMAIN answers) + 1
     IN answers' = insert(answers, i, [arg[p].answer EXCEPT !.id = i])
  /\ sql_return(p, "Ok", <<>>, 1)
  /\ UNCHANGED questions

\* Mutant of statement_fails: an empty result is returned in place of the
\* error.
statement_fails_fallback(p) ==
  /\ pc[p] = "querying" /\ op[p] \in SqlOps
  /\ \E cause \in DbCauses :
       /\ pc' = [pc EXCEPT ![p] = "done"]
       /\ result' = [result EXCEPT ![p] = SqlReply("Ok", <<>>, 0, cause)]
       /\ data' = [data EXCEPT ![p] = <<>>]
  /\ UNCHANGED <<questions, answers, readers, writers, waitq, op, arg>>

\* The statement of a store function fails: Err(err) is mapped to
\* Err(QError::DatabaseQueryError(err)) and returned.
statement_fails(p) ==
  /\ pc[p] = "querying" /\ op[p] \in SqlOps
  /\ \E cause \in DbCauses : db_error(p, cause)
  /\ UNCHANGED <<questions, answers, readers, writers, waitq, op, arg>>

\* The query maps of the listings of this specification.
SqlQueryMaps ==
  {NoParams} \cup {[k \in {"offset", "limit"} |-> IF k = "offset" THEN o ELSE l] :
                     o \in {<<"0">>, <<"1">>}, l \in {<<"1">>, <<"-", "1">>}}

SqlNext ==
  \/ \E params \in SqlQueryMaps : get_questions_sql_call(1, params)
  \/ store_get_questions(1)
  \/ \E question \in NewQuestions : add_question_sql_call(1, question)
  \/ store_add_question(1)
  \/ \E id \in RowIds, question \in SqlBodies : update_question_sql_call(1, id, question)
  \/ store_update_question(1)
  \/ \E id \in RowIds : delete_question_sql_call(1, id)
  \/ store_delete_question(1)
  \/ \E answer \in NewAnswers : add_answer_sql_call(1, answer)
  \/ store_add_answer(1)
  \/ statement_fails(1)
  \/ task_end(1)

SpecSql == Init /\ [][SqlNext]_vars

(***************************************************************************)
(* One update_question and one delete_question on their own: task 1 serves *)
(* a PUT /questions/{id} and task 2 a DELETE /questions/{id}, each once,   *)
(* in any interleaving of their steps.                                     *)
(***************************************************************************)
RaceNext ==
  \/ \E id \in QIds, question \in Bodies : update_question_call(1, id, question)
  \/ \E id \in QIds : delete_question_call(2, id)
  \/ \E p \in {1, 2} : write_acquire(p)
  \/ update_question_get_mut(1)
  \/ update_question_done(1)
  \/ delete_question_remove(2)

SpecRace == Init /\ [][RaceNext]_vars

(***************************************************************************)
(* Claims.                                                                 *)
(***************************************************************************)
Min2(a, b) == IF a < b THEN a ELSE b

Max2(a, b) == IF a > b THEN a ELSE b

\* The elements of d at the 1-based positions a..b (none when b < a).
positions(d, a, b) == [i \in 1..(b - a + 1) |-> d[a + i - 1]]

\* Task p takes a step of its handler.
moves(p) == pc'[p] # pc[p]

\* C1: an update_question whose id is not a key of the questions collection
\* does not change the collection in any of its steps, and its step inside
\* the write section returns QuestionNotFound.
C1_UpdateAbsent ==
  [][\A p \in Tasks :
       (op[p] = "update_question" /\ moves(p) /\ arg[p].id \notin DOMAIN questions)
         => /\ questions' = questions
            /\ pc[p] = "writing" =>
                 (pc'[p] = "done" /\ result'[p].kind = "QuestionNotFound")]_vars

\* C1 witness: an update_question has found its id absent and returned.
C1_Witness ==
  \E p \in Tasks : /\ pc[p] = "done" /\ op[p] = "update_question"
                   /\ result[p].kind = "QuestionNotFound"
                   /\ arg[p].id \notin DOMAIN questions

\* C2: no two questions returned by a listing carry the same id.
C2_UniqueIds ==
  \A p \in Tasks :
    (pc[p] = "done" /\ op[p] = "get_questions" /\ result[p].kind = "Ok")
      => \A i, j \in 1..Len(result[p].rows) :
           i # j => result[p].rows[i].id # result[p].rows[j].id

\* C3: a paginated get_questions with valid bounds returns a sub-sequence of
\* the listing, whatever the bounds and the number of questions: it never
\* fails or aborts.
C3_NeverAborts ==
  \A p \in Tasks :
    (pc[p] = "done" /\ op[p] \in {"get_questions", "get_questions_ch04"}
       /\ arg[p].pagination.some)
      => result[p].kind = "Ok"

\* The bounds a request asked for.
req_start(p) == parse_usize(arg[p].params["start"]).val

req_end(p) == parse_usize(arg[p].params["end"]).val

\* C4: with min(start, end) <= n, the get_questions of ch04-answers and ch05
\* returns exactly the elements at the 1-based positions max(1, min(start,
\* end)) through min(max(start, end), n) of the listing it collected.
C4_Window ==
  [][\A p \in Tasks :
       (pc[p] = "collected" /\ op[p] = "get_questions" /\ pc'[p] = "done"
          /\ arg[p].pagination.some
          /\ Min2(req_start(p), req_end(p)) <= Len(data[p]))
         => result'[p] =
              Reply("Ok", positions(data[p],
                                    Max2(1, Min2(req_start(p), req_end(p))),
                                    Min2(Max2(req_start(p), req_end(p)), Len(data[p]))))]_vars

\* C4 witness: (start=5, end=2) has yielded the window 2..5 of ten questions.
C4_Witness ==
  /\ pc[1] = "done" /\ op[1] = "get_questions"
  /\ Cardinality(DOMAIN questions) = 10
  /\ arg[1].params = start_end(to_string(5), to_string(2))
  /\ result[1] = Reply("Ok", <<Q(2, 1), Q(3, 1), Q(4, 1), Q(5, 1)>>)

\* C5: with add_question calls of pairwise distinct new ids running in any
\* interleaving, once they have completed the collection holds each added
\* question as given, nothing else under a new id, and every question that
\* was stored before, unchanged.
AddsDone == {p \in Tasks : pc[p] = "done"}

C5_NoInsertionLost ==
  /\ [](AddsDone = Tasks =>
          /\ \A p \in Tasks : /\ MaxId + p \in DOMAIN questions
                              /\ questions[MaxId + p] = arg[p].question
          /\ (DOMAIN questions) \ QIds = {MaxId + p : p \in Tasks})
  /\ [][\A i \in QIds :
          /\ (i \in DOMAIN questions') = (i \in DOMAIN questions)
          /\ i \in DOMAIN questions => questions'[i] = questions[i]]_vars

\* C5 witness: every task has completed its add, over a store that held
\* questions before.
C5_Witness ==
  /\ AddsDone = Tasks
  /\ Cardinality(DOMAIN questions) = MaxId + NumTasks

\* A record as some request body (or the seed file) gave it, whole.
Whole(r) == \E i \in QIds, v \in Versions : r = Q(i, v)

\* The tasks inside a read section / a write section of collection c.
InRead(c) == {p \in Tasks : pc[p] = "reading" /\ coll(op[p]) = c}

InWrite(c) == {p \in Tasks : pc[p] \in {"writing", "storing"} /\ coll(op[p]) = c}

\* C6: a listing is collected only while no write to the questions is under
\* way, and every record it holds and returns is one whole written record,
\* never a mix of two writes or a partly stored one.
C6_NoPartialWriteSeen ==
  \A p \in Tasks :
    /\ pc[p] = "reading" => (InWrite("questions") = {} /\
                             \A k \in DOMAIN questions : Whole(questions[k]))
    /\ \A i \in 1..Len(data[p]) : Whole(data[p][i])
    /\ \A i \in 1..Len(result[p].rows) : Whole(result[p].rows[i])

\* C6 witness: a listing has returned records, and a write to a question is
\* partly applied.
C6_Witness ==
  \E p, q \in Tasks :
    /\ pc[p] = "done" /\ op[p] = "get_questions" /\ result[p].rows # <<>>
    /\ pc[q] = "storing" /\ op[q] = "update_question"
    /\ ~Whole(questions[arg[q].id])

\* C7: per collection, either no task is inside a write section, or exactly
\* one is and none is inside a read section.
C7_ReadersOrOneWriter ==
  \A c \in Colls :
    /\ InRead(c) = readers[c] /\ InWrite(c) = writers[c]
    /\ \/ InWrite(c) = {}
       \/ (Cardinality(InWrite(c)) = 1 /\ InRead(c) = {})

\* C7 witness: every task is inside a read section of the questions at once.
C7_Witness == InRead("questions") = Tasks /\ NumTasks > 1

\* A handler is under way.
Pending(p) == pc[p] \in {"read_wait", "reading", "collected",
                         "write_wait", "writing", "storing"}

\* C8: no task holds more than one lock, and whenever a handler is under way
\* some handler can take a step.
C8_NoDeadlock ==
  /\ \A p \in Tasks :
       Cardinality({c \in Colls : p \in readers[c] \cup writers[c]}) <= 1
  /\ (\E p \in Tasks : Pending(p)) => ENABLED (\E p \in Tasks : step(p))

\* C8 witness: a task waits for a lock that another task holds for writing.
C8_Witness ==
  \E p, q \in Tasks :
    /\ pc[p] \in {"read_wait", "write_wait"}
    /\ q \in writers[coll(op[p])]

\* C9: every handler that has finished has finished with a success or an
\* error.
C9_EndsOkOrErr ==
  \A p \in Tasks :
    pc[p] = "done" => result[p].kind \in {"Ok", "QuestionNotFound",
                                          "MissingParameters", "ParseError"}

\* Every handler that is under way finishes (in whatever way), or is abandoned.
Terminates == \A p \in Tasks : Pending(p) ~> pc[p] \in {"done", "cancelled"}

\* A write that awaits the lock is granted it, or is abandoned.
WriteNotStarved ==
  \A p \in Tasks : pc[p] = "write_wait" ~> pc[p] \in {"writing", "cancelled"}

\* C10: a task is abandoned only while it awaits a lock; abandoning it changes
\* neither collection; an abandoned task holds no lock and is in no queue;
\* and a collection no task is writing holds whole records only.
C10_AbandonLeavesStore ==
  /\ [][\A p \in Tasks :
          (pc'[p] = "cancelled" /\ moves(p))
            => /\ pc[p] \in {"read_wait", "write_wait"}
               /\ questions' = questions /\ answers' = answers]_vars
  /\ [](\A p \in Tasks :
          pc[p] = "cancelled"
            => \A c \in Colls :
                 /\ p \notin readers[c] \cup writers[c]
                 /\ \A i \in 1..Len(waitq[c]) : waitq[c][i] # p)
  /\ [](/\ writers["questions"] = {} =>
             \A k \in DOMAIN questions : Whole(questions[k])
        /\ writers["answers"] = {} =>
             \A k \in DOMAIN answers :
               \E v \in Versions, i \in QIds : answers[k] = A(v, i))

\* C10 witness: an add_question has been abandoned, and its question is not
\* stored.
C10_Witness ==
  \E p \in Tasks :
    /\ pc[p] = "cancelled" /\ op[p] = "add_question"
    /\ arg[p].id \notin DOMAIN questions

\* The sequence d holds every record of the map m, each once, and nothing else.
shows(d, m) ==
  /\ Len(d) = Cardinality(DOMAIN m)
  /\ \A k \in DOMAIN m : \E i \in 1..Len(d) : d[i] = m[k]

\* A listing collects, in its read section, the whole collection as it stands.
collects(p) ==
  (op[p] = "get_questions" /\ pc[p] = "reading" /\ moves(p))
    => (pc'[p] = "collected" /\ shows(data'[p], questions))

\* A listing without bounds replies with all it collected.
replies_all(p) ==
  (op[p] = "get_questions" /\ pc[p] = "collected" /\ moves(p)
     /\ ~arg[p].pagination.some)
    => result'[p] = Reply("Ok", data[p])

\* C11: an update_question whose body carries the id it is called with keeps
\* the set of stored ids as it is in each of its steps and, when it returns
\* Ok, leaves under that id the body given, whole (title, content and tags);
\* a listing collects exactly the records stored.
C11_UpdateReplaces ==
  [][\A p \in Tasks :
       /\ (op[p] = "update_question" /\ moves(p) /\ arg[p].question.id = arg[p].id)
            => /\ DOMAIN questions' = DOMAIN questions
               /\ (pc'[p] = "done" /\ result'[p].kind = "Ok")
                    => questions'[arg[p].id] = arg[p].question
       /\ collects(p)]_vars

\* C11 witness: q1 was added to an empty store, then updated to a different
\* q2 of the same id; q2 is the one record stored.
C11_Witness ==
  \E p, q \in Tasks :
    /\ pc[p] = "done" /\ op[p] = "add_question"
    /\ pc[q] = "done" /\ op[q] = "update_question" /\ result[q].kind = "Ok"
    /\ arg[q].id = arg[p].id /\ arg[q].question.id = arg[q].id
    /\ arg[q].question # arg[p].question
    /\ DOMAIN questions = {arg[q].id}
    /\ questions[arg[q].id] = arg[q].question

\* C12: a delete_question whose id is not a key of the questions collection
\* does not change the collection in any of its steps, and its step inside
\* the write section returns QuestionNotFound.
C12_DeleteAbsent ==
  [][\A p \in Tasks :
       (op[p] = "delete_question" /\ moves(p) /\ arg[p].id \notin DOMAIN questions)
         => /\ questions' = questions
            /\ pc[p] = "writing" =>
                 (pc'[p] = "done" /\ result'[p].kind = "QuestionNotFound")]_vars

\* C12 witness: a delete_question has found its id absent, in a store that
\* holds other questions.
C12_Witness ==
  \E p \in Tasks : /\ pc[p] = "done" /\ op[p] = "delete_question"
                   /\ result[p].kind = "QuestionNotFound"
                   /\ arg[p].id \notin DOMAIN questions
                   /\ questions # EmptyMap

\* The ids of the questions a listing of the map m shows.
listed(m) == {m[k].id : k \in DOMAIN m}

\* C13: a delete_question of a stored id removes that id and leaves every
\* other question as it is; and an id that no listing shows stays out of every
\* listing until a step of an add_question of that id.
C13_OmittedUntilAdded ==
  [][/\ \A p \in Tasks :
          (op[p] = "delete_question" /\ pc[p] = "writing" /\ moves(p)
             /\ arg[p].id \in DOMAIN questions)
            => /\ result'[p].kind = "Ok"
               /\ questions' = remove(questions, arg[p].id)
     /\ \A i \in QIds :
          (i \notin listed(questions) /\ i \in listed(questions'))
            => \E p \in Tasks : /\ op[p] = "add_question" /\ moves(p)
                                /\ arg[p].id = i]_vars

\* C14: an add_question that completes returns Ok and leaves its question,
\* equal in every field, under the question's id; a listing collects exactly
\* the records the shared collection holds, and a listing without bounds
\* returns them all.
C14_AddThenListed ==
  [][\A p \in Tasks :
       /\ (op[p] = "add_question" /\ pc[p] = "storing" /\ moves(p))
            => /\ pc'[p] = "done" /\ result'[p].kind = "Ok"
               /\ arg[p].question.id \in DOMAIN questions'
               /\ questions'[arg[p].question.id] = arg[p].question
       /\ collects(p)
       /\ replies_all(p)]_vars

\* C14 witness: a task has added a question, and another task's full listing
\* holds a record equal to it.
C14_Witness ==
  \E p, q \in Tasks :
    /\ p # q
    /\ pc[p] = "done" /\ op[p] = "add_question" /\ arg[p].question.title = MaxVer
    /\ pc[q] = "done" /\ op[q] = "get_questions" /\ arg[q].params = NoParams
    /\ \E i \in 1..Len(result[q].rows) : result[q].rows[i] = arg[p].question

\* C15: every step of an add_question leaves the records under other ids as
\* they are; its first store makes the id a key, so that the number of
\* questions grows by one when the id is new and stays when it is stored
\* already; its last leaves the given question under the id and returns Ok.
C15_AddAlwaysSucceeds ==
  [][\A p \in Tasks :
       (op[p] = "add_question" /\ moves(p))
         => /\ \A k \in (DOMAIN questions) \ {arg[p].id} :
                 k \in DOMAIN questions' /\ questions'[k] = questions[k]
            /\ pc[p] = "writing"
                 => /\ pc'[p] = "storing"
                    /\ DOMAIN questions' = (DOMAIN questions) \cup {arg[p].id}
                    /\ Cardinality(DOMAIN questions') =
                         Cardinality(DOMAIN questions)
                           + (IF arg[p].id \in DOMAIN questions THEN 0 ELSE 1)
            /\ pc[p] = "storing"
                 => /\ pc'[p] = "done" /\ result'[p].kind = "Ok"
                    /\ DOMAIN questions' = DOMAIN questions
                    /\ questions'[arg[p].id] = arg[p].question]_vars

\* C15 witness: two add_question calls of the same id and different bodies
\* have completed over an empty store; one question is stored.
C15_Witness ==
  \E p, q \in Tasks :
    /\ p # q
    /\ pc[p] = "done" /\ op[p] = "add_question" /\ result[p].kind = "Ok"
    /\ pc[q] = "done" /\ op[q] = "add_question" /\ result[q].kind = "Ok"
    /\ arg[p].id = arg[q].id /\ arg[p].question # arg[q].question
    /\ DOMAIN questions = {arg[p].id}
    /\ questions[arg[p].id] = arg[p].question

\* The listing handlers, and the two bound keys of each.
Listings == {"get_questions", "get_questions_sql"}

bound_keys(o) == IF o = "get_questions_sql" THEN {"offset", "limit"}
                                            ELSE {"start", "end"}

C17_MissingParameters ==
  \A p \in Tasks :
    (op[p] \in Listings /\ arg[p].params # NoParams
       /\ ~(bound_keys(op[p]) \subseteq DOMAIN arg[p].params))
      => pc[p] = "done" /\ result[p].kind = "MissingParameters"

\* C17 witness: a map holding one bound key with a value that does not parse,
\* and an unrelated key, was answered MissingParameters.
C17_Witness ==
  \E p \in Tasks :
    /\ pc[p] = "done" /\ op[p] = "get_questions"
    /\ arg[p].params = [k \in {"start", "page"} |-> <<"a", "b", "c">>]
    /\ result[p].kind = "MissingParameters"

\* A text that is not a non-negative integer: empty, negative, or holding a
\* character that is neither a digit nor a sign.
not_a_bound(s) ==
  \/ s = <<>>
  \/ Head(s) = "-"
  \/ \E i \in 1..Len(s) : ~IsDigit(s[i]) /\ s[i] \notin {"+", "-"}

\* C18: a start/end listing whose map holds both keys, one of them with a
\* value that is not a non-negative integer, returns ParseError from its
\* entry: it joins no lock queue, holds no lock and collects nothing.
C18_ParseError ==
  \A p \in Tasks :
    (op[p] = "get_questions" /\ {"start", "end"} \subseteq DOMAIN arg[p].params
       /\ (not_a_bound(arg[p].params["start"]) \/ not_a_bound(arg[p].params["end"])))
      => /\ pc[p] = "done" /\ result[p].kind = "ParseError"
         /\ data[p] = <<>>
         /\ \A c \in Colls : /\ p \notin readers[c] \cup writers[c]
                             /\ \A i \in 1..Len(waitq[c]) : waitq[c][i] # p

\* C18 witness: start = "1" with end = "-1" was answered ParseError.
C18_Witness ==
  \E p \in Tasks :
    /\ pc[p] = "done" /\ op[p] = "get_questions"
    /\ arg[p].params = start_end(<<"1">>, <<"-", "1">>)
    /\ result[p].kind = "ParseError"

\* A text that is a negative integer.
negative_text(s) ==
  /\ Len(s) > 1 /\ Head(s) = "-"
  /\ \A i \in 2..Len(s) : IsDigit(s[i])
  /\ \E i \in 2..Len(s) : s[i] # "0"

\* C19: in the offset/limit variant the query is never run with a negative
\* offset or limit, and a request whose offset or limit is a negative integer
\* is answered ParseError.
C19_NoNegativeBound ==
  \A p \in Tasks :
    op[p] = "get_questions_sql"
      => /\ pc[p] = "querying"
              => /\ arg[p].pagination.offset >= 0
                 /\ arg[p].pagination.limit.some => arg[p].pagination.limit.val >= 0
         /\ (/\ {"offset", "limit"} \subseteq DOMAIN arg[p].params
             /\ \/ negative_text(arg[p].params["offset"])
                \/ negative_text(arg[p].params["limit"]))
              => pc[p] = "done" /\ result[p].kind = "ParseError"

Mappers == {"return_error", "return_error_ch03", "return_error_ch04"}

recognised(o) ==
  CASE o = "return_error" -> {"QError", "CorsForbidden", "BodyDeserializeError"}
    [] o = "return_error_ch03" -> {"CorsForbidden", "InvalidId"}
    [] o = "return_error_ch04" -> {"Error", "CorsForbidden"}

\* Task p has mapped a rejection that holds a cause of variant k.
mapped(p, k) ==
  /\ pc[p] = "done" /\ op[p] \in Mappers
  /\ \E f \in arg[p].rej : f.kind = k

\* C21: a rejection caused by QuestionNotFound is answered 404, by
\* MissingParameters or ParseError 400, by InvalidId 422, by a CORS rejection
\* 403 and by a malformed body 422.
C21_StatusPerKind ==
  \A p \in Tasks :
    /\ mapped(p, "QuestionNotFound") => result[p].status = NOT_FOUND
    /\ mapped(p, "MissingParameters") => result[p].status = BAD_REQUEST
    /\ mapped(p, "ParseError") => result[p].status = BAD_REQUEST
    /\ mapped(p, "InvalidId") => result[p].status = UNPROCESSABLE_ENTITY
    /\ mapped(p, "CorsForbidden") => result[p].status = FORBIDDEN
    /\ mapped(p, "BodyDeserializeError") => result[p].status = UNPROCESSABLE_ENTITY

\* C22: every rejection given to a recovery function is answered with a
\* reply, never passed on; one that holds no cause of a type the function
\* looks for is answered 404 "Route not found".
C22_Total ==
  \A p \in Tasks :
    (pc[p] = "done" /\ op[p] \in Mappers)
      => /\ result[p].kind = "Reply"
         /\ (\A f \in arg[p].rej : f.type \notin recognised(op[p]))
              => (result[p].status = NOT_FOUND /\ result[p].message = "Route not found")

\* C22 witness: return_error was given a rejection that holds only causes it
\* does not look for, and answered 404 "Route not found".
C22_Witness ==
  \E p \in Tasks :
    /\ pc[p] = "done" /\ op[p] = "return_error"
    /\ arg[p].rej = OtherFaults
    /\ result[p] = Response(NOT_FOUND, "Route not found")

\* C23: two rejections with a cause of the same kind are answered by
\* return_error with the same status and the same message.
C23_MessagePerKind ==
  \A p, q \in Tasks :
    (/\ pc[p] = "done" /\ op[p] = "return_error"
     /\ pc[q] = "done" /\ op[q] = "return_error"
     /\ \E f \in arg[p].rej, g \in arg[q].rej :
          f.type \in recognised("return_error") /\ f.type = g.type /\ f.kind = g.kind)
      => (result[p].status = result[q].status /\ result[p].message = result[q].message)

\* C24: from_str of the string-keyed variant, given a non-empty string,
\* yields the identifier that holds exactly that string; given the empty
\* string it fails with an invalid-input error and yields no identifier.
C24_FromStrRoundTrip ==
  \A p \in Tasks :
    (pc[p] = "done" /\ op[p] = "from_str")
      => IF arg[p].raw = <<>>
         THEN result[p].kind = "InvalidInput" /\ result[p].id = Uninit
         ELSE result[p].kind = "Ok" /\ result[p].id = arg[p].raw

\* C24 witness: from_str("a-1") has yielded the identifier "a-1".
C24_Witness ==
  \E p \in Tasks :
    /\ pc[p] = "done" /\ op[p] = "from_str"
    /\ arg[p].raw = <<"a", "-", "1">>
    /\ result[p] = IdOk(<<"a", "-", "1">>)

\* The text s is that of an integer: an optional sign, then digits.
digits_of(s) == IF s # <<>> /\ Head(s) \in {"+", "-"} THEN Tail(s) ELSE s

is_integer_text(s) ==
  /\ digits_of(s) # <<>>
  /\ \A i \in 1..Len(digits_of(s)) : IsDigit(digits_of(s)[i])

RECURSIVE strip_zeros(_)
\* The digits without their leading zeros ("0" for zero).
strip_zeros(ds) ==
  IF Len(ds) > 1 /\ Head(ds) = "0" THEN strip_zeros(Tail(ds)) ELSE ds

RECURSIVE digits_leq(_, _)
\* Of two digit strings of the same length, a is at most b.
digits_leq(a, b) ==
  IF a = <<>> THEN TRUE
  ELSE IF DigitVal(Head(a)) # DigitVal(Head(b)) THEN DigitVal(Head(a)) < DigitVal(Head(b))
  ELSE digits_leq(Tail(a), Tail(b))

\* The integer text s denotes a value in -2^31 .. 2^31 - 1.
in_i32_range(s) ==
  LET mag == strip_zeros(digits_of(s))
      top == IF Head(s) = "-" THEN i32_to_string(-I32_MAX - 1) ELSE <<"+">> \o to_string(I32_MAX)
  IN \/ Len(mag) < Len(Tail(top))
     \/ Len(mag) = Len(Tail(top)) /\ digits_leq(mag, Tail(top))

\* The decimal text of the value the integer text s denotes.
canonical(s) ==
  LET mag == strip_zeros(digits_of(s))
  IN IF Head(s) = "-" /\ mag # <<"0">> THEN <<"-">> \o mag ELSE mag

\* C25: from_str of the integer-keyed variant fails exactly when the text is
\* empty or is not that of an integer in the i32 range; otherwise it yields
\* the identifier holding the integer the text denotes.
C25_FromStrI32 ==
  \A p \in Tasks :
    (pc[p] = "done" /\ op[p] = "from_str_i32")
      => IF is_integer_text(arg[p].raw) /\ in_i32_range(arg[p].raw)
         THEN /\ result[p].kind = "Ok"
              /\ result[p].id \in (-I32_MAX - 1)..I32_MAX
              /\ i32_to_string(result[p].id) = canonical(arg[p].raw)
         ELSE result[p].kind = "InvalidInput" /\ result[p].id = Uninit

\* C25 witness: from_str("-2147483648") has yielded the identifier -2^31.
C25_Witness ==
  \E p \in Tasks :
    /\ pc[p] = "done" /\ op[p] = "from_str_i32"
    /\ arg[p].raw = i32_to_string(-I32_MAX - 1)
    /\ result[p] = IdOk(-I32_MAX - 1)

\* C26: an update_question of the offset/limit variant whose id matches no
\* row, and whose statement did not fail, returns QuestionNotFound.
C26_SqlUpdateAbsent ==
  \A p \in Tasks :
    (pc[p] = "done" /\ op[p] = "update_question_sql"
       /\ result[p].cause = "" /\ result[p].affected = 0)
      => result[p].kind = "QuestionNotFound"

\* C27: the step in which delete_question of the offset/limit variant
\* returns yields QuestionNotFound exactly when its statement ran and removed
\* no row, Ok exactly when it ran and removed one or more, DatabaseQueryError
\* exactly when it failed, and nothing else.
C27_SqlDeleteOutcomes ==
  [][\A p \in Tasks :
       (op[p] = "delete_question_sql" /\ pc[p] = "querying" /\ moves(p))
         => LET removed == Cardinality(DOMAIN questions) - Cardinality(DOMAIN questions')
                failed == result'[p].cause # ""
            IN /\ pc'[p] = "done"
               /\ result'[p].kind \in {"QuestionNotFound", "Ok", "DatabaseQueryError"}
               /\ result'[p].kind = "QuestionNotFound" <=> (~failed /\ removed = 0)
               /\ result'[p].kind = "Ok" <=> (~failed /\ removed >= 1)
               /\ result'[p].kind = "DatabaseQueryError" <=> failed
               /\ failed => removed = 0
               /\ ~failed => result'[p].affected = removed]_vars

\* C27 witness: a delete_question has removed the row of its id and
\* returned Ok, other rows remaining.
C27_Witness ==
  \E p \in Tasks :
    /\ pc[p] = "done" /\ op[p] = "delete_question_sql"
    /\ result[p].kind = "Ok" /\ result[p].affected = 1
    /\ arg[p].id \notin DOMAIN questions
    /\ questions # EmptyMap

\* The error of the statement a returned store function ran, "" when the
\* statement did not fail.
statement_error(r) == IF "cause" \in DOMAIN r THEN r.cause ELSE ""

\* C28: a store function of the offset/limit variant sends its statement
\* when it is called, once, and returns when that statement has run or
\* failed; when it failed, the function returns DatabaseQueryError with the
\* statement's error, no row, and both tables as they were.
C28_OneStatement ==
  [][\A p \in Tasks :
       /\ (op'[p] \in SqlOps /\ pc'[p] = "querying" /\ moves(p)) => pc[p] = "idle"
       /\ (op[p] \in SqlOps /\ pc[p] = "querying" /\ moves(p))
            => /\ pc'[p] = "done"
               /\ result'[p].kind = "DatabaseQueryError" <=> statement_error(result'[p]) # ""
               /\ statement_error(result'[p]) # ""
                    => /\ result'[p].rows = <<>>
                       /\ questions' = questions /\ answers' = answers]_vars

\* C28 witness: the statement of an add_answer failed on a closed
\* connection, and add_answer returned DatabaseQueryError with that error.
C28_Witness ==
  \E p \in Tasks :
    /\ pc[p] = "done" /\ op[p] = "add_answer_sql"
    /\ result[p] = SqlReply("DatabaseQueryError", <<>>, 0, "connection closed")
    /\ answers = EmptyMap

\* C29: an add_answer that has built its Answer goes on to await the answers
\* lock whether or not its question_id is the id of a stored question; no
\* step of it changes the questions collection, its lock or its queue; and
\* it ends only by returning Ok with its Answer stored, or dropped while it
\* awaited the lock.
C29_AddAnswerAnyQuestion ==
  [][\A p \in Tasks :
       (op'[p] = "add_answer" /\ moves(p))
         => /\ questions' = questions
            /\ readers'["questions"] = readers["questions"]
            /\ writers'["questions"] = writers["questions"]
            /\ waitq'["questions"] = waitq["questions"]
            /\ (pc[p] = "idle" /\ arg'[p].answer # BlankAnswer) => pc'[p] = "write_wait"
            /\ (pc[p] # "idle" /\ pc'[p] \notin {"done", "cancelled"})
                 => p \in writers'["answers"]
            /\ (pc[p] # "idle" /\ pc'[p] = "done")
                 => /\ result'[p] = Reply("Ok", <<>>)
                    /\ AnswerIdConst \in DOMAIN answers'
                    /\ answers'[AnswerIdConst] = arg[p].answer]_vars

\* C29 witness: an add_answer has returned Ok and its Answer is stored,
\* while no question of its question_id is stored.
C29_Witness ==
  \E p \in Tasks :
    /\ pc[p] = "done" /\ op[p] = "add_answer" /\ result[p].kind = "Ok"
    /\ arg[p].answer.question_id \notin DOMAIN questions
    /\ AnswerIdConst \in DOMAIN answers
    /\ answers[AnswerIdConst] = arg[p].answer

\* C30: the answers collection never holds an answer under a key other than
\* the constant id; it changes only in a step of the add_answer that holds
\* its write lock; and the step in which an add_answer returns leaves in it
\* the Answer of that add_answer and nothing else.
C30_OneAnswer ==
  [][/\ DOMAIN answers' \subseteq {AnswerIdConst}
     /\ answers' # answers
          => \E p \in Tasks : /\ writers["answers"] = {p}
                              /\ op[p] = "add_answer" /\ moves(p)
     /\ \A p \in Tasks :
          (op[p] = "add_answer" /\ pc[p] = "storing" /\ moves(p))
            => /\ DOMAIN answers' = {AnswerIdConst}
               /\ answers'[AnswerIdConst] = arg[p].answer]_vars

\* C30 witness: two add_answer calls with different Answers have both
\* returned Ok, and the collection holds the one Answer of one of them.
C30_Witness ==
  \E p, q \in Tasks :
    /\ pc[p] = "done" /\ op[p] = "add_answer" /\ result[p].kind = "Ok"
    /\ pc[q] = "done" /\ op[q] = "add_answer" /\ result[q].kind = "Ok"
    /\ arg[p].answer # arg[q].answer
    /\ DOMAIN answers = {AnswerIdConst}
    /\ answers[AnswerIdConst] = arg[q].answer

\* C31: an update_question of the offset/limit variant that has updated a
\* row returns one record: its id is the id addressed, and its title,
\* content and tags are those now in the row.
C31_SqlUpdateReturnsRow ==
  \A p \in Tasks :
    (pc[p] = "done" /\ op[p] = "update_question_sql"
       /\ result[p].kind = "Ok" /\ result[p].affected >= 1)
      => /\ Len(result[p].rows) = 1
         /\ arg[p].id \in DOMAIN questions
         /\ result[p].rows[1].id = arg[p].id
         /\ result[p].rows[1].title = questions[arg[p].id].title
         /\ result[p].rows[1].content = questions[arg[p].id].content
         /\ result[p].rows[1].tags = questions[arg[p].id].tags

\* C32: an add_answer of the offset/limit variant that has inserted its row
\* returns that row: its serial id, its content and its question_id.
C32_SqlAddAnswerReturnsRow ==
  \A p \in Tasks :
    (pc[p] = "done" /\ op[p] = "add_answer_sql" /\ result[p].kind = "Ok")
      => \E i \in DOMAIN answers :
           /\ answers[i].content = arg[p].answer.content
           /\ answers[i].question_id = arg[p].answer.question_id
           /\ result[p].rows = <<answers[i]>>

\* C33: an add_answer that returns without having built its Answer (its form
\* lacks content or question_id) returns one of the typed errors, and leaves
\* the answers collection as it was.
C33_AddAnswerMissingKey ==
  [][\A p \in Tasks :
       (op'[p] = "add_answer" /\ pc[p] = "idle" /\ pc'[p] = "done")
         => /\ result'[p].kind \in {"MissingParameters", "ParseError", "QuestionNotFound"}
            /\ answers' = answers]_vars

\* The reply of a listing whose clamps and slice gave r.
page_reply(r) == Reply(r.kind, IF r.kind = "Ok" THEN r.val ELSE <<>>)

\* C34: of a listing of n questions with bounds 1 <= start <= end <= n,
\* get_questions of ch04 post-put-delete has returned the end - start
\* questions at the positions start + 1 .. end, and get_questions of
\* ch04-answers and of ch05 the end - start + 1 questions at the positions
\* start .. end; with any bounds, each of ch04-answers and ch05 has returned
\* what the clamps and slice of the other give.
C34_VariantsDiffer ==
  \A p \in Tasks :
    (pc[p] = "done" /\ arg[p].pagination.some
       /\ op[p] \in {"get_questions", "get_questions_ch04", "get_questions_answers"})
      => LET n == Cardinality(DOMAIN questions)
             start == arg[p].pagination.start
             end == arg[p].pagination.end
         IN /\ (1 <= start /\ start <= end /\ end <= n)
                 => /\ result[p].kind = "Ok"
                    /\ op[p] = "get_questions_ch04"
                         => /\ Len(result[p].rows) = end - start
                            /\ result[p].rows = SubSeq(listing(n), start + 1, end)
                    /\ op[p] # "get_questions_ch04"
                         => /\ Len(result[p].rows) = end - start + 1
                            /\ result[p].rows = SubSeq(listing(n), start, end)
            /\ op[p] = "get_questions"
                 => result[p] = page_reply(result_set_answers(listing(n), arg[p].pagination))
            /\ op[p] = "get_questions_answers"
                 => result[p] = page_reply(result_set(listing(n), arg[p].pagination))

\* C34 witness: of ten questions with (start=2, end=5), ch04 post-put-delete
\* has returned the three questions 3..5.
C34_Witness ==
  /\ pc[1] = "done" /\ op[1] = "get_questions_ch04"
  /\ Cardinality(DOMAIN questions) = 10
  /\ arg[1].pagination = Pagination(2, 5)
  /\ result[1] = Reply("Ok", <<Q(3, 1), Q(4, 1), Q(5, 1)>>)

\* C35: the step in which an update_question returns follows its presence
\* check with no step of another task on the questions collection between
\* them: it returns Ok with its question stored under an id that was and is
\* a key, or QuestionNotFound with the id absent and the collection as it
\* was.  The one step of a delete_question checks and removes: it returns Ok
\* exactly when the id was a key, and the id is no key after it.  So once an
\* update_question and a delete_question of the same id, alone on the store,
\* have both returned, the id is no key, and the update has succeeded only if
\* the delete has.
C35_UpdateDeleteAtomic ==
  [][/\ \A p \in Tasks :
          (op[p] = "update_question" /\ pc[p] \in {"writing", "storing"})
            => /\ writers["questions"] = {p}
               /\ ~moves(p) => questions' = questions
               /\ (pc[p] = "storing" /\ moves(p)) => pc'[p] = "done"
               /\ pc'[p] = "done"
                    => IF result'[p].kind = "Ok"
                       THEN /\ arg[p].id \in DOMAIN questions
                            /\ DOMAIN questions' = DOMAIN questions
                            /\ questions'[arg[p].id] = arg[p].question
                       ELSE /\ result'[p].kind = "QuestionNotFound"
                            /\ arg[p].id \notin DOMAIN questions
                            /\ questions' = questions
     /\ \A p \in Tasks :
          (op[p] = "delete_question" /\ pc[p] = "writing" /\ moves(p))
            => /\ pc'[p] = "done"
               /\ writers["questions"] = {p}
               /\ arg[p].id \notin DOMAIN questions'
               /\ result'[p].kind = (IF arg[p].id \in DOMAIN questions
                                     THEN "Ok" ELSE "QuestionNotFound")
     /\ \A p, q \in Tasks :
          (/\ op'[p] = "update_question" /\ pc'[p] = "done"
           /\ op'[q] = "delete_question" /\ pc'[q] = "done"
           /\ arg'[p].id = arg'[q].id)
            => /\ arg'[p].id \notin DOMAIN questions'
               /\ result'[p].kind = "Ok" => result'[q].kind = "Ok"]_vars

\* C35 witness: a delete_question has removed a question and the
\* update_question of the same id has returned QuestionNotFound; the id is
\* no key.
C35_Witness ==
  \E p, q \in Tasks :
    /\ op[p] = "update_question" /\ pc[p] = "done"
    /\ result[p].kind = "QuestionNotFound"
    /\ op[q] = "delete_question" /\ pc[q] = "done" /\ result[q].kind = "Ok"
    /\ arg[p].id = arg[q].id
    /\ arg[p].id \notin DOMAIN questions

\* C36: a get_questions with bounds takes its listing in the one step in
\* which it holds the read lock, of the questions stored then; no step of
\* another task changes that listing; and its reply is what the clamps and
\* the slice give for that listing, whatever is stored by then: when it is
\* Ok, the questions at the positions max(start, 1) .. min(end, length) of
\* the listing.
C36_OneSnapshot ==
  [][\A p \in Tasks :
       (op[p] = "get_questions" /\ arg[p].pagination.some)
         => /\ (pc[p] = "reading" /\ moves(p))
                 => /\ p \in readers["questions"] /\ writers["questions"] = {}
                    /\ data'[p] \in values(questions)
                    /\ questions' = questions
            /\ (pc[p] = "collected" /\ ~moves(p)) => data'[p] = data[p]
            /\ (pc[p] = "collected" /\ moves(p))
                 => /\ pc'[p] = "done"
                    /\ result'[p] = page_reply(result_set(data[p], arg[p].pagination))
                    /\ result'[p].kind = "Ok"
                         => result'[p].rows =
                              SubSeq(data[p], Max2(arg[p].pagination.start, 1),
                                     Min2(arg[p].pagination.end, Len(data[p])))]_vars

\* C36 witness: a get_questions with bounds has returned more questions
\* than are stored by the time it replies.
C36_Witness ==
  \E p \in Tasks :
    /\ pc[p] = "done" /\ op[p] = "get_questions" /\ arg[p].pagination.some
    /\ result[p].kind = "Ok"
    /\ Len(result[p].rows) > Cardinality(DOMAIN questions)

\* C37: no step of an add_question, update_question, delete_question or
\* get_questions changes the answers collection, its lock or its queue, and
\* no step of an add_answer changes the questions collection, its lock or
\* its queue.
C37_Frame ==
  [][\A p \in Tasks :
       moves(p)
         => /\ op'[p] \in {"add_question", "update_question", "delete_question",
                           "get_questions"}
                 => /\ answers' = answers
                    /\ readers'["answers"] = readers["answers"]
                    /\ writers'["answers"] = writers["answers"]
                    /\ waitq'["answers"] = waitq["answers"]
            /\ op'[p] = "add_answer"
                 => /\ questions' = questions
                    /\ readers'["questions"] = readers["questions"]
                    /\ writers'["questions"] = writers["questions"]
                    /\ waitq'["questions"] = waitq["questions"]]_vars

\* C37 witness: a delete_question has removed a question, and the answer
\* whose question_id is the id of that question is still stored.
C37_Witness ==
  \E p \in Tasks :
    /\ pc[p] = "done" /\ op[p] = "delete_question" /\ result[p].kind = "Ok"
    /\ arg[p].id \notin DOMAIN questions
    /\ \E k \in DOMAIN answers : answers[k].question_id = arg[p].id

=============================================================================
